---- MODULE Spec2Model ----
(***************************************************************************)
(* Model of rust/upb/arena.rs: the Rust `Arena` wrapper over a upb arena.  *)
(* The wrapper's methods (new, alloc, checked_alloc, copy_in,              *)
(* copy_slice_in, copy_str_in, fuse, Drop) are modelled from arena.rs.     *)
(* The allocator behind the `upb_Arena_*` entry points is not part of      *)
(* arena.rs; it is modelled from the design document (block chain, growth  *)
(* policy, fuse groups as a union-find forest with a live-count).          *)
(***************************************************************************)
EXTENDS Integers, Sequences, FiniteSets, TLC

(***************************************************************************)
(* Bounds of the model.                                                    *)
(***************************************************************************)
MaxArenas == 3
MaxRegions == 2
MaxLen == 2

(***************************************************************************)
(* Program constants.                                                      *)
(***************************************************************************)
UPB_MALLOC_ALIGN == 8
InitialBlockSize == 16
GrowthFactor == 2
GrowthCap == 32
FixedBufSize == 8

ArenaIds == 1..MaxArenas
NoArena == 0

\* Layout alignments are powers of two; 16 is above UPB_MALLOC_ALIGN.
Aligns == {1, 8, 16}
\* Layout sizes a caller of alloc / checked_alloc asks for.
Sizes == {0, 3, 16, 40}
MaxRequest == CHOOSE s \in Sizes : \A t \in Sizes : t <= s

Max(x, y) == IF x >= y THEN x ELSE y
Min(x, y) == IF x <= y THEN x ELSE y

AlignUp(n, a) == ((n + a - 1) \div a) * a

\* The system allocator hands out disjoint buffers aligned for any type:
\* block number k lives at address k * BlockStride.
BlockStride == AlignUp(Max(GrowthCap, MaxRequest) + UPB_MALLOC_ALIGN, 16)
BlockBase(k) == k * BlockStride

(***************************************************************************)
(* State.                                                                  *)
(*   Rust side: one slot per `Arena` value.                                *)
(*   upb side: one record of fields per arena handle (RawArena).           *)
(***************************************************************************)
VARIABLES
  astate,    \* Arena value: "none" (not built), "live", "dropped"
  raw,       \* Arena.raw: the handle the value wraps (NoArena before new)
  parent,    \* handle -> parent handle in the fuse forest (itself at a root)
  count,     \* handle -> live-count (meaningful at a root, 0 elsewhere)
  rank,      \* handle -> union-by-rank rank
  fixed,     \* handle -> the arena has a caller-supplied initial block
  chain,     \* handle -> its blocks, newest first
  policy,    \* handle -> size the growth policy gives the next block
  freed,     \* handle -> number of times its memory was released
  nblocks,   \* number of blocks obtained from the system allocator
  mem,       \* written bytes: address -> byte
  regions,   \* every region returned so far, oldest first
  joined,    \* Arena value -> least Arena value it was fused with, by the
             \* fuse calls that returned (directly or transitively)
  last,      \* the operation just performed and its outcome
  halted,    \* the process was terminated (allocation-error handler)
  pc,        \* thread -> position inside upb_Arena_Fuse / upb_Arena_Free
  targ,      \* thread -> the Arena values the running call holds
  tloc,      \* thread -> roots found so far by the running call
  lock       \* owner of the fuse-group lock (0 when free)

rustVars == <<astate, raw>>
groupVars == <<parent, count, rank, freed>>
chainVars == <<chain, policy, nblocks>>
threadVars == <<pc, targ, tloc, lock>>
vars == <<astate, raw, parent, count, rank, fixed, chain, policy, freed,
          nblocks, mem, regions, joined, last, halted, pc, targ, tloc, lock>>

(***************************************************************************)
(* Union-find forest of fuse groups.                                       *)
(***************************************************************************)
RECURSIVE Root(_, _)
Root(p, h) == IF p[h] = h THEN h ELSE Root(p, p[h])

\* The nodes from h up to, and not including, its root.
RECURSIVE PathTo(_, _)
PathTo(p, h) == IF p[h] = h THEN {} ELSE {h} \cup PathTo(p, p[h])

\* find-root with path compression: every node on the path points at the root.
Compress(p, h) ==
  [x \in DOMAIN p |-> IF x \in PathTo(p, h) THEN Root(p, h) ELSE p[x]]

\* Union by rank: the root that stays a root.
LinkWinner(rk, r1, r2) == IF rk[r1] >= rk[r2] THEN r1 ELSE r2
LinkLoser(rk, r1, r2) == IF rk[r1] >= rk[r2] THEN r2 ELSE r1

Members(p, r) == {h \in DOMAIN p : p[h] # NoArena /\ Root(p, h) = r}

(***************************************************************************)
(* Values, layouts and their byte representations.                         *)
(***************************************************************************)
Layout(sz, al) == [size |-> sz, align |-> al]

\* Copy types used by copy_in / copy_slice_in: unit, u8, u16 and a type
\* aligned above UPB_MALLOC_ALIGN.
Types == { [name |-> "unit", size |-> 0, align |-> 1],
           [name |-> "u8", size |-> 1, align |-> 1],
           [name |-> "u16", size |-> 2, align |-> 2],
           [name |-> "a16", size |-> 16, align |-> 16] }
ValuesOf(T) == CASE T.name = "unit" -> {0}
                 [] T.name = "u8" -> {0, 200}
                 [] T.name = "u16" -> {513}
                 [] T.name = "a16" -> {1}

RECURSIVE Pow256(_)
Pow256(i) == IF i = 0 THEN 1 ELSE 256 * Pow256(i - 1)

\* In-memory (little-endian) bytes of an integer value of n bytes.
ToBytes(v, n) == [i \in 1..n |-> (v \div Pow256(i - 1)) % 256]

RECURSIVE FromBytes(_)
FromBytes(bs) ==
  IF Len(bs) = 0 THEN 0 ELSE bs[1] + 256 * FromBytes(Tail(bs))

RECURSIVE Flatten(_)
Flatten(ss) == IF Len(ss) = 0 THEN <<>> ELSE Head(ss) \o Flatten(Tail(ss))

\* Bytes of a slice of T, element after element.
SliceBytes(T, data) == Flatten([i \in 1..Len(data) |-> ToBytes(data[i], T.size)])

\* The slice of n elements of T read back from a byte sequence.
SliceFromBytes(T, bs, n) ==
  [i \in 1..n |-> FromBytes(SubSeq(bs, (i - 1) * T.size + 1, i * T.size))]

\* A str is a sequence of code points stored as UTF-8.
CodePoints == {65, 233, 8364}
Utf8Encode(cp) ==
  IF cp < 128 THEN <<cp>>
  ELSE IF cp < 2048 THEN <<192 + (cp \div 64), 128 + (cp % 64)>>
  ELSE <<224 + (cp \div 4096), 128 + ((cp \div 64) % 64), 128 + (cp % 64)>>
StrBytes(s) == Flatten([i \in 1..Len(s) |-> Utf8Encode(s[i])])

RECURSIVE Utf8Decode(_)
Utf8Decode(bs) ==
  IF Len(bs) = 0 THEN <<>>
  ELSE IF bs[1] < 128 THEN <<bs[1]>> \o Utf8Decode(SubSeq(bs, 2, Len(bs)))
  ELSE IF bs[1] < 224
    THEN <<(bs[1] - 192) * 64 + (bs[2] - 128)>> \o Utf8Decode(SubSeq(bs, 3, Len(bs)))
  ELSE <<(bs[1] - 224) * 4096 + (bs[2] - 128) * 64 + (bs[3] - 128)>>
         \o Utf8Decode(SubSeq(bs, 4, Len(bs)))

SeqsUpTo(S, n) == UNION {[1..k -> S] : k \in 0..n}

(***************************************************************************)
(* Memory.                                                                 *)
(***************************************************************************)
WriteMem(m, ptr, bytes) ==
  [a \in DOMAIN m \cup {ptr + i - 1 : i \in 1..Len(bytes)} |->
     IF a >= ptr /\ a < ptr + Len(bytes) THEN bytes[a - ptr + 1] ELSE m[a]]
\* A byte never written reads as Uninit.
Uninit == 0 - 1
ReadMem(m, ptr, n) ==
  [i \in 1..n |-> IF ptr + i - 1 \in DOMAIN m THEN m[ptr + i - 1] ELSE Uninit]

(***************************************************************************)
(* The allocator behind upb_Arena_New / _Malloc / _Fuse / _Free.           *)
(***************************************************************************)
\* upb_Arena_Malloc(h, size): bump in the head block, or grow the chain.
\* The pointer is aligned to UPB_MALLOC_ALIGN whatever the caller's layout.
MallocFits(ch, size) ==
  /\ Len(ch) > 0
  /\ AlignUp(ch[1].off, UPB_MALLOC_ALIGN) + size <= ch[1].cap

\* GrowthPolicy: the capacity of a new block and the size the policy gives
\* the block after it.  A request larger than the policy's size gets a block
\* of its own size, which the policy does not count (pol is FALSE for it).
GrowByPolicy(pol, size) == size <= pol
GrowCap(pol, size) == IF size > pol THEN size ELSE pol
GrowNext(pol, size) ==
  IF size > pol THEN pol ELSE Min(pol * GrowthFactor, GrowthCap)

upb_Arena_Malloc(h, size) ==
  LET ch == chain[h]
      start == AlignUp(ch[1].off, UPB_MALLOC_ALIGN)
      blk == [id |-> nblocks + 1, cap |-> GrowCap(policy[h], size),
              off |-> size, owned |-> TRUE, rel |-> 0,
              pol |-> GrowByPolicy(policy[h], size)]
  IN IF MallocFits(ch, size)
     THEN [ptr |-> BlockBase(ch[1].id) + start, blk |-> ch[1].id,
           chain |-> [ch EXCEPT ![1].off = start + size],
           policy |-> policy[h], nblocks |-> nblocks]
     ELSE [ptr |-> BlockBase(blk.id), blk |-> blk.id,
           chain |-> <<blk>> \o ch,
           policy |-> GrowNext(policy[h], size), nblocks |-> nblocks + 1]

\* upb_Arena_Fuse(h1, h2): refused when either arena has an initial block;
\* otherwise find both roots (compressing the paths) and, when they differ,
\* link by rank and give the surviving root the sum of the two live-counts.
upb_Arena_Fuse_ok(h1, h2) == ~fixed[h1] /\ ~fixed[h2]

FuseParent(h1, h2) ==
  LET p == Compress(Compress(parent, h1), h2)
      r1 == Root(parent, h1)
      r2 == Root(parent, h2)
  IN IF r1 = r2 THEN p
     ELSE [p EXCEPT ![LinkLoser(rank, r1, r2)] = LinkWinner(rank, r1, r2)]
FuseCount(h1, h2) ==
  LET r1 == Root(parent, h1)
      r2 == Root(parent, h2)
  IN IF r1 = r2 THEN count
     ELSE [count EXCEPT ![LinkWinner(rank, r1, r2)] = count[r1] + count[r2],
                        ![LinkLoser(rank, r1, r2)] = 0]
FuseRank(h1, h2) ==
  LET r1 == Root(parent, h1)
      r2 == Root(parent, h2)
  IN IF r1 # r2 /\ rank[r1] = rank[r2]
     THEN [rank EXCEPT ![r1] = rank[r1] + 1]
     ELSE rank

\* Releasing a chain: every block the arena owns goes back to the system.
ReleaseChain(ch) ==
  [i \in 1..Len(ch) |->
     IF ch[i].owned THEN [ch[i] EXCEPT !.rel = ch[i].rel + 1] ELSE ch[i]]

\* upb_Arena_Free(h) on a state g = [count, freed, chain]: decrement the
\* live-count at h's root; at zero release the chains of the whole group.
upb_Arena_Free(g, h) ==
  LET r == Root(parent, h)
      n == g.count[r] - 1
      grp == Members(parent, r)
  IN [count |-> [g.count EXCEPT ![r] = n],
      freed |-> [x \in DOMAIN g.freed |->
                   IF n = 0 /\ x \in grp THEN g.freed[x] + 1 ELSE g.freed[x]],
      chain |-> [x \in DOMAIN g.chain |->
                   IF n = 0 /\ x \in grp THEN ReleaseChain(g.chain[x])
                   ELSE g.chain[x]]]

RECURSIVE FreeAll(_, _)
FreeAll(g, hs) ==
  IF Len(hs) = 0 THEN g ELSE FreeAll(upb_Arena_Free(g, Head(hs)), Tail(hs))

(***************************************************************************)
(* The Rust wrapper: what each method passes on and checks.                *)
(***************************************************************************)
\* Faulty variants of the wrapper, used to test that the properties below
\* depend on it.
alloc_size_passes_align(layout) == layout.align
checked_alloc_strict(layout) == layout.align < UPB_MALLOC_ALIGN
copy_in_unwritten(T, v) == ToBytes(0, T.size)
copy_slice_counts_bytes(T, data) ==
  SubSeq(SliceBytes(T, data), 1, Min(Len(data), Len(SliceBytes(T, data))))
fuse_self_twice(a, b) == <<raw[a], raw[a]>>
drop_frees_nothing(v) == <<>>
drop_frees_twice(v) == <<raw[v], raw[v]>>

\* alloc: the size handed to upb_Arena_Malloc, and the length of the slice
\* built over the returned pointer.
alloc_size(layout) == layout.size
alloc_len(layout) == layout.size

\* alloc's debug_assert!: checked in a debug build only.
debug_assert_ok(layout, dbg) == dbg => layout.align <= UPB_MALLOC_ALIGN

\* checked_alloc's assert!: checked in every build.
checked_alloc_ok(layout) == layout.align <= UPB_MALLOC_ALIGN

\* Layout::for_value of a T and of a slice of T.
LayoutForValue(T) == Layout(T.size, T.align)
LayoutForSlice(T, data) == Layout(Len(data) * T.size, T.align)

\* copy_in: the bytes `(*alloc).write(*data)` stores.
copy_in_bytes(T, v) == ToBytes(v, T.size)

\* copy_slice_in: the bytes ptr::copy_nonoverlapping stores (data.len()
\* elements) and the length of the slice returned.
copy_slice_bytes(T, data) == SliceBytes(T, SubSeq(data, 1, Len(data)))
copy_slice_len(data) == Len(data)

\* fuse: the two handles handed to upb_Arena_Fuse.
fuse_args(a, b) == <<raw[a], raw[b]>>

\* Drop: the handles handed to upb_Arena_Free, in order.
drop_frees(v) == <<raw[v]>>

(***************************************************************************)
(* Outcome records.                                                        *)
(***************************************************************************)
NoPtr == 0
Outcome(op, a, b, res, layout, ptr, inp, out) ==
  [op |-> op, a |-> a, b |-> b, res |-> res, size |-> layout.size,
   align |-> layout.align, ptr |-> ptr, inp |-> inp, out |-> out]

Live(v) == astate[v] = "live"

\* The record of the fuse calls that returned: a and b now belong together.
Join(a, b) ==
  LET m == Min(joined[a], joined[b])
  IN [v \in DOMAIN joined |->
        IF joined[v] = joined[a] \/ joined[v] = joined[b] THEN m ELSE joined[v]]
Group(v) == {w \in DOMAIN joined : joined[w] = joined[v]}

\* An allocating call that panics before reaching the allocator.
Panicked(op, v, layout, inp) ==
  /\ last' = Outcome(op, v, NoArena, "panic", layout, NoPtr, inp, <<>>)
  /\ UNCHANGED <<astate, raw, parent, count, rank, fixed, chain, policy,
                 freed, nblocks, mem, regions, joined, halted, pc, targ,
                 tloc, lock>>

\* An allocating call served by the allocator: m is upb_Arena_Malloc's
\* result, bytes what the call then writes at the pointer, out what it
\* returns to the caller.
Served(op, v, layout, m, bytes, inp, out) ==
  /\ chain' = [chain EXCEPT ![raw[v]] = m.chain]
  /\ policy' = [policy EXCEPT ![raw[v]] = m.policy]
  /\ nblocks' = m.nblocks
  /\ mem' = WriteMem(mem, m.ptr, bytes)
  /\ regions' = Append(regions,
       [a |-> v, h |-> raw[v], blk |-> m.blk, ptr |-> m.ptr,
        size |-> alloc_len(layout), align |-> layout.align, op |-> op,
        inp |-> inp])
  /\ last' = Outcome(op, v, NoArena, "ok", layout, m.ptr, inp, out)
  /\ UNCHANGED <<astate, raw, parent, count, rank, fixed, freed, joined,
                 halted, pc, targ, tloc, lock>>

\* An allocating call for which upb_Arena_Malloc returned null (the system
\* allocator refused a new block): handle_alloc_error ends the process.
Aborted(op, v, layout, inp) ==
  /\ halted' = TRUE
  /\ last' = Outcome(op, v, NoArena, "abort", layout, NoPtr, inp, <<>>)
  /\ UNCHANGED <<astate, raw, parent, count, rank, fixed, chain, policy,
                 freed, nblocks, mem, regions, joined, pc, targ, tloc, lock>>

CanServe == Len(regions) < MaxRegions

\* oom: the system allocator has no memory left for a new block.
MallocNull(v, layout, oom) ==
  oom /\ ~MallocFits(chain[raw[v]], alloc_size(layout))

(***************************************************************************)
(* Operations of the sequential program.                                   *)
(***************************************************************************)
\* Arena::new(): a fresh handle from upb_Arena_New: a singleton group of
\* live-count 1 and an empty chain.
New(v) ==
  /\ ~halted
  /\ astate[v] = "none"
  /\ astate' = [astate EXCEPT ![v] = "live"]
  /\ raw' = [raw EXCEPT ![v] = v]
  /\ parent' = [parent EXCEPT ![v] = v]
  /\ count' = [count EXCEPT ![v] = 1]
  /\ rank' = [rank EXCEPT ![v] = 0]
  /\ fixed' = [fixed EXCEPT ![v] = FALSE]
  /\ chain' = [chain EXCEPT ![v] = <<>>]
  /\ policy' = [policy EXCEPT ![v] = InitialBlockSize]
  /\ last' = Outcome("new", v, NoArena, "ok", Layout(0, 1), NoPtr, <<>>, <<>>)
  /\ UNCHANGED <<freed, nblocks, mem, regions, joined, halted, pc, targ,
                 tloc, lock>>

\* A FixedArena: built outside the wrapper over a caller-supplied buffer
\* (its initial block, which it does not own) and wrapped with from_raw.
NewFixed(v) ==
  /\ ~halted
  /\ astate[v] = "none"
  /\ astate' = [astate EXCEPT ![v] = "live"]
  /\ raw' = [raw EXCEPT ![v] = v]
  /\ parent' = [parent EXCEPT ![v] = v]
  /\ count' = [count EXCEPT ![v] = 1]
  /\ rank' = [rank EXCEPT ![v] = 0]
  /\ fixed' = [fixed EXCEPT ![v] = TRUE]
  /\ chain' = [chain EXCEPT ![v] =
       <<[id |-> nblocks + 1, cap |-> FixedBufSize, off |-> 0,
          owned |-> FALSE, rel |-> 0, pol |-> FALSE]>>]
  /\ nblocks' = nblocks + 1
  /\ policy' = [policy EXCEPT ![v] = InitialBlockSize]
  /\ last' = Outcome("new_fixed", v, NoArena, "ok", Layout(0, 1), NoPtr,
                     <<>>, <<>>)
  /\ UNCHANGED <<freed, mem, regions, joined, halted, pc, targ, tloc, lock>>

\* Arena::alloc(layout) in a debug (dbg) or an optimised build.
Alloc(v, layout, dbg, oom) ==
  /\ ~halted
  /\ Live(v)
  /\ IF ~debug_assert_ok(layout, dbg)
     THEN Panicked("alloc", v, layout, <<>>)
     ELSE IF MallocNull(v, layout, oom)
     THEN Aborted("alloc", v, layout, <<>>)
     ELSE /\ CanServe
          /\ Served("alloc", v, layout,
                    upb_Arena_Malloc(raw[v], alloc_size(layout)),
                    <<>>, <<>>, <<>>)

\* Arena::checked_alloc(layout); room bounds the number of regions served.
CheckedAllocWithin(v, layout, oom, room) ==
  /\ ~halted
  /\ Live(v)
  /\ IF ~checked_alloc_ok(layout)
     THEN Panicked("checked_alloc", v, layout, <<>>)
     ELSE IF MallocNull(v, layout, oom)
     THEN Aborted("checked_alloc", v, layout, <<>>)
     ELSE /\ room
          /\ Served("checked_alloc", v, layout,
                    upb_Arena_Malloc(raw[v], alloc_size(layout)),
                    <<>>, <<>>, <<>>)

CheckedAlloc(v, layout, oom) == CheckedAllocWithin(v, layout, oom, CanServe)

\* Arena::copy_in(&data) for data: T.
CopyIn(v, T, val, oom) ==
  LET layout == LayoutForValue(T)
      m == upb_Arena_Malloc(raw[v], alloc_size(layout))
      bytes == copy_in_bytes(T, val)
      after == WriteMem(mem, m.ptr, bytes)
  IN /\ ~halted
     /\ Live(v)
     /\ IF ~checked_alloc_ok(layout)
        THEN Panicked("copy_in", v, layout, <<val>>)
        ELSE IF MallocNull(v, layout, oom)
        THEN Aborted("copy_in", v, layout, <<val>>)
        ELSE /\ CanServe
             /\ Served("copy_in", v, layout, m, bytes, <<val>>,
                       <<FromBytes(ReadMem(after, m.ptr, T.size))>>)

\* Arena::copy_slice_in(data) for data: &[T].
CopySliceIn(v, T, data, oom) ==
  LET layout == LayoutForSlice(T, data)
      m == upb_Arena_Malloc(raw[v], alloc_size(layout))
      bytes == copy_slice_bytes(T, data)
      after == WriteMem(mem, m.ptr, bytes)
      n == copy_slice_len(data)
  IN /\ ~halted
     /\ Live(v)
     /\ IF ~checked_alloc_ok(layout)
        THEN Panicked("copy_slice_in", v, layout, data)
        ELSE IF MallocNull(v, layout, oom)
        THEN Aborted("copy_slice_in", v, layout, data)
        ELSE /\ CanServe
             /\ Served("copy_slice_in", v, layout, m, bytes, data,
                       SliceFromBytes(T, ReadMem(after, m.ptr, n * T.size), n))

\* Arena::copy_str_in(s): copy_slice_in over s.as_bytes(), read back as str.
U8 == CHOOSE T \in Types : T.name = "u8"
CopyStrIn(v, s, oom) ==
  LET data == StrBytes(s)
      layout == LayoutForSlice(U8, data)
      m == upb_Arena_Malloc(raw[v], alloc_size(layout))
      bytes == copy_slice_bytes(U8, data)
      after == WriteMem(mem, m.ptr, bytes)
      n == copy_slice_len(data)
  IN /\ ~halted
     /\ Live(v)
     /\ IF ~checked_alloc_ok(layout)
        THEN Panicked("copy_str_in", v, layout, s)
        ELSE IF MallocNull(v, layout, oom)
        THEN Aborted("copy_str_in", v, layout, s)
        ELSE /\ CanServe
             /\ Served("copy_str_in", v, layout, m, bytes, s,
                       Utf8Decode(SliceFromBytes(U8, ReadMem(after, m.ptr, n), n)))

\* A faulty fuse: besides joining the groups it hands b's blocks over to a.
fuse_moves_blocks(a, b) ==
  LET h1 == fuse_args(a, b)[1]
      h2 == fuse_args(a, b)[2]
      ok == upb_Arena_Fuse_ok(h1, h2)
  IN /\ ~halted
     /\ Live(a) /\ Live(b)
     /\ IF ok
        THEN /\ parent' = FuseParent(h1, h2)
             /\ count' = FuseCount(h1, h2)
             /\ rank' = FuseRank(h1, h2)
             /\ joined' = Join(a, b)
             /\ chain' = IF h1 = h2 THEN chain
                         ELSE [chain EXCEPT ![h1] = chain[h2] \o chain[h1],
                                            ![h2] = <<>>]
        ELSE UNCHANGED <<parent, count, rank, joined, chain>>
     /\ last' = Outcome("fuse", a, b, IF ok THEN "ok" ELSE "panic",
                        Layout(0, 1), NoPtr, <<>>, <<>>)
     /\ UNCHANGED <<astate, raw, fixed, policy, freed, nblocks, mem,
                    regions, halted, pc, targ, tloc, lock>>

\* a.fuse(&b): panics when upb_Arena_Fuse reports failure.
Fuse(a, b) ==
  LET h1 == fuse_args(a, b)[1]
      h2 == fuse_args(a, b)[2]
      ok == upb_Arena_Fuse_ok(h1, h2)
  IN /\ ~halted
     /\ Live(a) /\ Live(b)
     /\ IF ok
        THEN /\ parent' = FuseParent(h1, h2)
             /\ count' = FuseCount(h1, h2)
             /\ rank' = FuseRank(h1, h2)
             /\ joined' = Join(a, b)
        ELSE UNCHANGED <<parent, count, rank, joined>>
     /\ last' = Outcome("fuse", a, b, IF ok THEN "ok" ELSE "panic",
                        Layout(0, 1), NoPtr, <<>>, <<>>)
     /\ UNCHANGED <<astate, raw, fixed, chain, policy, freed, nblocks, mem,
                    regions, halted, pc, targ, tloc, lock>>

\* drop(v): Drop for Arena.
Drop(v) ==
  LET g == FreeAll([count |-> count, freed |-> freed, chain |-> chain],
                   drop_frees(v))
  IN /\ ~halted
     /\ Live(v)
     /\ astate' = [astate EXCEPT ![v] = "dropped"]
     /\ count' = g.count
     /\ freed' = g.freed
     /\ chain' = g.chain
     /\ last' = Outcome("drop", v, NoArena, "ok", Layout(0, 1), NoPtr,
                        <<>>, <<>>)
     /\ UNCHANGED <<raw, parent, rank, fixed, policy, nblocks, mem, regions,
                    joined, halted, pc, targ, tloc, lock>>

Threads == {1, 2}
NoArgs == <<NoArena, NoArena>>

Init ==
  /\ astate = [v \in ArenaIds |-> "none"]
  /\ raw = [v \in ArenaIds |-> NoArena]
  /\ parent = [h \in ArenaIds |-> NoArena]
  /\ count = [h \in ArenaIds |-> 0]
  /\ rank = [h \in ArenaIds |-> 0]
  /\ fixed = [h \in ArenaIds |-> FALSE]
  /\ chain = [h \in ArenaIds |-> <<>>]
  /\ policy = [h \in ArenaIds |-> 0]
  /\ freed = [h \in ArenaIds |-> 0]
  /\ nblocks = 0
  /\ mem = [x \in {} |-> 0]
  /\ regions = <<>>
  /\ joined = [v \in ArenaIds |-> v]
  /\ last = Outcome("init", NoArena, NoArena, "ok", Layout(0, 1), NoPtr,
                    <<>>, <<>>)
  /\ halted = FALSE
  /\ pc = [t \in Threads |-> "idle"]
  /\ targ = [t \in Threads |-> NoArgs]
  /\ tloc = [t \in Threads |-> NoArgs]
  /\ lock = 0

\* Arena values are built in the order of their ids (the ids are names only).
NextId(v) == \A w \in ArenaIds : w < v => astate[w] # "none"

\* Inputs of the lifetime specification: two plain Copy types and one
\* layout large enough to force a new block; the system allocator never
\* runs out of memory.
LifeTypes == {T \in Types : T.name \in {"u8", "u16"}}
LifeLayouts == {Layout(20, 8)}

Next ==
  \/ \E v \in ArenaIds : NextId(v) /\ New(v)
  \/ \E v \in ArenaIds : NextId(v) /\ NewFixed(v)
  \/ \E v \in ArenaIds, l \in LifeLayouts : CheckedAlloc(v, l, FALSE)
  \/ \E v \in ArenaIds, T \in LifeTypes : \E val \in ValuesOf(T) :
       CopyIn(v, T, val, FALSE)
  \/ \E a \in ArenaIds, b \in ArenaIds : Fuse(a, b)
  \/ \E v \in ArenaIds : Drop(v)

Spec == Init /\ [][Next]_vars

(***************************************************************************)
(* Allocation on one fresh arena: every allocating entry point, every      *)
(* layout.                                                                 *)
(***************************************************************************)
TheArena == CHOOSE v \in ArenaIds : \A w \in ArenaIds : v <= w

InitAlloc ==
  /\ astate = [v \in ArenaIds |-> IF v = TheArena THEN "live" ELSE "none"]
  /\ raw = [v \in ArenaIds |-> IF v = TheArena THEN v ELSE NoArena]
  /\ parent = [h \in ArenaIds |-> IF h = TheArena THEN h ELSE NoArena]
  /\ count = [h \in ArenaIds |-> IF h = TheArena THEN 1 ELSE 0]
  /\ rank = [h \in ArenaIds |-> 0]
  /\ fixed = [h \in ArenaIds |-> FALSE]
  /\ chain = [h \in ArenaIds |-> <<>>]
  /\ policy = [h \in ArenaIds |-> IF h = TheArena THEN InitialBlockSize ELSE 0]
  /\ freed = [h \in ArenaIds |-> 0]
  /\ nblocks = 0
  /\ mem = [x \in {} |-> 0]
  /\ regions = <<>>
  /\ joined = [v \in ArenaIds |-> v]
  /\ last = Outcome("new", TheArena, NoArena, "ok", Layout(0, 1), NoPtr,
                    <<>>, <<>>)
  /\ halted = FALSE
  /\ pc = [t \in Threads |-> "idle"]
  /\ targ = [t \in Threads |-> NoArgs]
  /\ tloc = [t \in Threads |-> NoArgs]
  /\ lock = 0

NextAlloc ==
  \/ \E sz \in Sizes, al \in Aligns, dbg \in BOOLEAN, oom \in BOOLEAN :
       Alloc(TheArena, Layout(sz, al), dbg, oom)
  \/ \E sz \in Sizes, al \in Aligns, oom \in BOOLEAN :
       CheckedAlloc(TheArena, Layout(sz, al), oom)
  \/ \E T \in Types, oom \in BOOLEAN : \E val \in ValuesOf(T) :
       CopyIn(TheArena, T, val, oom)
  \/ \E T \in Types, oom \in BOOLEAN :
       \E data \in SeqsUpTo(ValuesOf(T), MaxLen) :
         CopySliceIn(TheArena, T, data, oom)
  \/ \E s \in SeqsUpTo(CodePoints, MaxLen), oom \in BOOLEAN :
       CopyStrIn(TheArena, s, oom)

SpecAlloc == InitAlloc /\ [][NextAlloc]_vars

(***************************************************************************)
(* Growth of one fresh arena: checked_alloc alone, with a size between the *)
(* first two policy sizes added, and room for two more regions, so that    *)
(* the chain grows past the policy's cap.                                  *)
(***************************************************************************)
GrowSizes == Sizes \cup {20}
GrowAligns == {1, UPB_MALLOC_ALIGN}
CanGrow == Len(regions) < MaxRegions + 2

NextGrow ==
  \E sz \in GrowSizes, al \in GrowAligns :
    CheckedAllocWithin(TheArena, Layout(sz, al), FALSE, CanGrow)

SpecGrow == InitAlloc /\ [][NextGrow]_vars

(***************************************************************************)
(* Outcomes: arenas built by new(), which may fail, and every allocating   *)
(* entry point on them, with the system allocator free to refuse a block.  *)
(***************************************************************************)
\* Arena::new() when upb_Arena_New returns None: arena_new_failed panics and
\* no Arena value comes to exist.
NewFailed(v) ==
  /\ ~halted
  /\ astate[v] = "none"
  /\ last' = Outcome("new", v, NoArena, "panic", Layout(0, 1), NoPtr,
                     <<>>, <<>>)
  /\ UNCHANGED <<astate, raw, parent, count, rank, fixed, chain, policy,
                 freed, nblocks, mem, regions, joined, halted, pc, targ,
                 tloc, lock>>

\* Inputs of the outcome specification: two arenas, one small Copy type and
\* one whose alignment is above the allocator's.
OutIds == {TheArena, TheArena + 1}
OutTypes == {T \in Types : T.name \in {"u8", "a16"}}

NextOutcome ==
  \/ \E v \in OutIds : NextId(v) /\ New(v)
  \/ \E v \in OutIds : NextId(v) /\ NewFailed(v)
  \/ \E v \in OutIds, sz \in Sizes, al \in Aligns, dbg \in BOOLEAN,
        oom \in BOOLEAN : Alloc(v, Layout(sz, al), dbg, oom)
  \/ \E v \in OutIds, sz \in Sizes, al \in Aligns, oom \in BOOLEAN :
       CheckedAlloc(v, Layout(sz, al), oom)
  \/ \E v \in OutIds, T \in OutTypes, oom \in BOOLEAN :
       \E val \in ValuesOf(T) : CopyIn(v, T, val, oom)
  \/ \E v \in OutIds, T \in OutTypes, oom \in BOOLEAN :
       \E data \in SeqsUpTo(ValuesOf(T), 1) : CopySliceIn(v, T, data, oom)
  \/ \E v \in OutIds, str \in SeqsUpTo(CodePoints, 1), oom \in BOOLEAN :
       CopyStrIn(v, str, oom)

SpecOutcome == Init /\ [][NextOutcome]_vars

(***************************************************************************)
(* Raw handles: Arena::from_raw wraps a handle that already exists.  The   *)
(* new Arena value shares the handle with whoever owns it; from_raw takes  *)
(* no hold of its own on the arena.                                        *)
(***************************************************************************)
\* The handle behind v is a valid arena: it has not been released.
ValidArena(v) == Live(v) /\ freed[raw[v]] = 0

\* Arena::from_raw(w.raw()): v wraps the handle that w holds.
FromRaw(v, w) ==
  /\ ~halted
  /\ astate[v] = "none"
  /\ ValidArena(w)
  /\ astate' = [astate EXCEPT ![v] = "live"]
  /\ raw' = [raw EXCEPT ![v] = raw[w]]
  /\ last' = Outcome("from_raw", v, w, "ok", Layout(0, 1), NoPtr, <<>>, <<>>)
  /\ UNCHANGED <<parent, count, rank, fixed, chain, policy, freed, nblocks,
                 mem, regions, joined, halted, pc, targ, tloc, lock>>

\* a.fuse(&b) under the safety invariant of the Arena struct: both handles
\* are valid arenas.
RawFuse(a, b) == ValidArena(a) /\ ValidArena(b) /\ Fuse(a, b)

NextRaw ==
  \/ \E v \in ArenaIds : NextId(v) /\ New(v)
  \/ \E v \in ArenaIds : NextId(v) /\ NewFixed(v)
  \/ \E v \in ArenaIds, w \in ArenaIds : NextId(v) /\ FromRaw(v, w)
  \/ \E a \in ArenaIds, b \in ArenaIds : RawFuse(a, b)
  \/ \E v \in ArenaIds : Drop(v)

SpecRaw == Init /\ [][NextRaw]_vars

(***************************************************************************)
(* Concurrent fuse and drop.  The main thread builds the arenas, fuses     *)
(* some of them, then moves two of them to each of two threads.  Arena is  *)
(* Send and not Sync: a value is owned by one thread, no other thread can  *)
(* borrow or drop it.  Inside the allocator, the parent links and          *)
(* live-counts are guarded by one lock; upb_Arena_Fuse and upb_Arena_Free  *)
(* run as separate steps under it.                                         *)
(***************************************************************************)
ConcIds == 1..(MaxArenas + 1)
BlockSizeConc == InitialBlockSize

\* Every arena was built by new() and has served one allocation that filled
\* its first block.
InitConc ==
  /\ astate = [v \in ConcIds |-> "live"]
  /\ raw = [v \in ConcIds |-> v]
  /\ parent = [h \in ConcIds |-> h]
  /\ count = [h \in ConcIds |-> 1]
  /\ rank = [h \in ConcIds |-> 0]
  /\ fixed = [h \in ConcIds |-> FALSE]
  /\ chain = [h \in ConcIds |->
       <<[id |-> h, cap |-> BlockSizeConc, off |-> BlockSizeConc,
          owned |-> TRUE, rel |-> 0, pol |-> TRUE]>>]
  /\ policy = [h \in ConcIds |-> GrowNext(InitialBlockSize, BlockSizeConc)]
  /\ freed = [h \in ConcIds |-> 0]
  /\ nblocks = MaxArenas + 1
  /\ mem = [x \in {} |-> 0]
  /\ regions = [v \in ConcIds |->
       [a |-> v, h |-> v, blk |-> v, ptr |-> BlockBase(v),
        size |-> BlockSizeConc, align |-> UPB_MALLOC_ALIGN,
        op |-> "checked_alloc", inp |-> <<>>]]
  /\ joined = [v \in ConcIds |-> v]
  /\ last = Outcome("init", NoArena, NoArena, "ok", Layout(0, 1), NoPtr,
                    <<>>, <<>>)
  /\ halted = FALSE
  /\ pc = [t \in Threads |-> "unspawned"]
  /\ targ = [t \in Threads |-> NoArgs]
  /\ tloc = [t \in Threads |-> NoArgs]
  /\ lock = 0

\* The Arena values moved to thread t when it is spawned.
Owns(t) == {v \in ConcIds : ((v - 1) \div 2) + 1 = t}

\* Before the threads exist the main thread fuses arenas one call at a time.
SetupFuse(a, b) ==
  /\ \A t \in Threads : pc[t] = "unspawned"
  /\ Fuse(a, b)

Spawn ==
  /\ \A t \in Threads : pc[t] = "unspawned"
  /\ pc' = [t \in Threads |-> "idle"]
  /\ last' = Outcome("spawn", NoArena, NoArena, "ok", Layout(0, 1), NoPtr,
                     <<>>, <<>>)
  /\ UNCHANGED <<astate, raw, parent, count, rank, fixed, chain, policy,
                 freed, nblocks, mem, regions, joined, halted, targ, tloc,
                 lock>>

\* 1 when a call of another thread is in flight (recorded with the outcome
\* of a call as it returns).
Overlaps(t) == IF \E u \in Threads \ {t} : pc[u] # "idle" THEN 1 ELSE 0

\* Thread t calls a.fuse(&b): upb_Arena_Fuse refuses at once, or goes for
\* the lock.
FuseCall(t, a, b) ==
  LET h1 == fuse_args(a, b)[1]
      h2 == fuse_args(a, b)[2]
  IN /\ pc[t] = "idle"
     /\ Live(a) /\ Live(b)
     /\ {a, b} \subseteq Owns(t)
     /\ IF upb_Arena_Fuse_ok(h1, h2)
        THEN /\ pc' = [pc EXCEPT ![t] = "f_lock"]
             /\ targ' = [targ EXCEPT ![t] = <<a, b>>]
             /\ tloc' = [tloc EXCEPT ![t] = <<h1, h2>>]
             /\ UNCHANGED last
        ELSE /\ last' = Outcome("fuse", a, b, "panic", Layout(0, 1), NoPtr,
                                <<>>, <<>>)
             /\ UNCHANGED <<pc, targ, tloc>>
     /\ UNCHANGED <<astate, raw, parent, count, rank, fixed, chain, policy,
                    freed, nblocks, mem, regions, joined, halted, lock>>

FuseLock(t) ==
  /\ pc[t] = "f_lock"
  /\ lock = 0
  /\ lock' = t
  /\ pc' = [pc EXCEPT ![t] = "f_find1"]
  /\ UNCHANGED <<astate, raw, parent, count, rank, fixed, chain, policy,
                 freed, nblocks, mem, regions, joined, last, halted, targ,
                 tloc>>

\* find-root of the first arena, compressing its path.
FuseFind1(t) ==
  /\ pc[t] = "f_find1"
  /\ parent' = Compress(parent, tloc[t][1])
  /\ tloc' = [tloc EXCEPT ![t][1] = Root(parent, tloc[t][1])]
  /\ pc' = [pc EXCEPT ![t] = "f_find2"]
  /\ UNCHANGED <<astate, raw, count, rank, fixed, chain, policy, freed,
                 nblocks, mem, regions, joined, last, halted, targ, lock>>

\* find-root of the second arena.
FuseFind2(t) ==
  /\ pc[t] = "f_find2"
  /\ parent' = Compress(parent, tloc[t][2])
  /\ tloc' = [tloc EXCEPT ![t][2] = Root(parent, tloc[t][2])]
  /\ pc' = [pc EXCEPT ![t] = "f_link"]
  /\ UNCHANGED <<astate, raw, count, rank, fixed, chain, policy, freed,
                 nblocks, mem, regions, joined, last, halted, targ, lock>>

\* Link the two roots (nothing to do when they are one) and sum the counts.
FuseLink(t) ==
  /\ pc[t] = "f_link"
  /\ parent' = FuseParent(tloc[t][1], tloc[t][2])
  /\ count' = FuseCount(tloc[t][1], tloc[t][2])
  /\ rank' = FuseRank(tloc[t][1], tloc[t][2])
  /\ pc' = [pc EXCEPT ![t] = "f_unlock"]
  /\ UNCHANGED <<astate, raw, fixed, chain, policy, freed, nblocks, mem,
                 regions, joined, last, halted, targ, tloc, lock>>

\* Release the lock; upb_Arena_Fuse returns true and fuse returns.
FuseUnlock(t) ==
  /\ pc[t] = "f_unlock"
  /\ lock' = 0
  /\ joined' = Join(targ[t][1], targ[t][2])
  /\ last' = Outcome("fuse", targ[t][1], targ[t][2], "ok", Layout(0, 1),
                     NoPtr, <<Overlaps(t)>>, <<>>)
  /\ pc' = [pc EXCEPT ![t] = "idle"]
  /\ targ' = [targ EXCEPT ![t] = NoArgs]
  /\ tloc' = [tloc EXCEPT ![t] = NoArgs]
  /\ UNCHANGED <<astate, raw, parent, count, rank, fixed, chain, policy,
                 freed, nblocks, mem, regions, halted>>

\* Thread t drops Arena value v: Drop hands its handle to upb_Arena_Free.
DropCall(t, v) ==
  /\ pc[t] = "idle"
  /\ Live(v)
  /\ v \in Owns(t)
  /\ astate' = [astate EXCEPT ![v] = "dropping"]
  /\ targ' = [targ EXCEPT ![t] = <<v, NoArena>>]
  /\ tloc' = [tloc EXCEPT ![t] = drop_frees(v)]
  /\ pc' = [pc EXCEPT ![t] = IF Len(drop_frees(v)) = 0 THEN "d_done"
                             ELSE "d_lock"]
  /\ UNCHANGED <<raw, parent, count, rank, fixed, chain, policy, freed,
                 nblocks, mem, regions, joined, last, halted, lock>>

DropLock(t) ==
  /\ pc[t] = "d_lock"
  /\ lock = 0
  /\ lock' = t
  /\ pc' = [pc EXCEPT ![t] = "d_free"]
  /\ UNCHANGED <<astate, raw, parent, count, rank, fixed, chain, policy,
                 freed, nblocks, mem, regions, joined, last, halted, targ,
                 tloc>>

\* upb_Arena_Free under the lock, then the lock is released.
DropFree(t) ==
  LET g == upb_Arena_Free([count |-> count, freed |-> freed, chain |-> chain],
                          Head(tloc[t]))
  IN /\ pc[t] = "d_free"
     /\ count' = g.count
     /\ freed' = g.freed
     /\ chain' = g.chain
     /\ lock' = 0
     /\ tloc' = [tloc EXCEPT ![t] = Tail(tloc[t])]
     /\ pc' = [pc EXCEPT ![t] = IF Len(tloc[t]) = 1 THEN "d_done"
                                ELSE "d_lock"]
     /\ UNCHANGED <<astate, raw, parent, rank, fixed, policy, nblocks, mem,
                    regions, joined, last, halted, targ>>

\* drop returns: the value is gone.
DropDone(t) ==
  /\ pc[t] = "d_done"
  /\ astate' = [astate EXCEPT ![targ[t][1]] = "dropped"]
  /\ last' = Outcome("drop", targ[t][1], NoArena, "ok", Layout(0, 1), NoPtr,
                     <<Overlaps(t)>>, <<>>)
  /\ pc' = [pc EXCEPT ![t] = "idle"]
  /\ targ' = [targ EXCEPT ![t] = NoArgs]
  /\ tloc' = [tloc EXCEPT ![t] = NoArgs]
  /\ UNCHANGED <<raw, parent, count, rank, fixed, chain, policy, freed,
                 nblocks, mem, regions, joined, halted, lock>>

NextConc ==
  \/ \E a \in ConcIds, b \in ConcIds : SetupFuse(a, b)
  \/ Spawn
  \/ \E t \in Threads, a \in ConcIds, b \in ConcIds : FuseCall(t, a, b)
  \/ \E t \in Threads : FuseLock(t)
  \/ \E t \in Threads : FuseFind1(t)
  \/ \E t \in Threads : FuseFind2(t)
  \/ \E t \in Threads : FuseLink(t)
  \/ \E t \in Threads : FuseUnlock(t)
  \/ \E t \in Threads, v \in ConcIds : DropCall(t, v)
  \/ \E t \in Threads : DropLock(t)
  \/ \E t \in Threads : DropFree(t)
  \/ \E t \in Threads : DropDone(t)

SpecConc == InitConc /\ [][NextConc]_vars

(***************************************************************************)
(* Groups alone: the arenas of InitConc, fused and dropped one call at a   *)
(* time by a single thread.  One arena more than in Spec, so that a group  *)
(* can hold a path of two parent links.                                    *)
(***************************************************************************)
NextGroup ==
  \/ \E a \in ConcIds, b \in ConcIds : Fuse(a, b)
  \/ \E v \in ConcIds : Drop(v)

SpecGroup == InitConc /\ [][NextGroup]_vars

(***************************************************************************)
(* Properties of the lifetime specification (Spec).                        *)
(***************************************************************************)
GroupAlive(v) == \E w \in Group(v) : Live(w)
Fused(v) == Cardinality(Group(v)) > 1

\* The block holding region r has not been released.
RegionValid(r) ==
  \E i \in 1..Len(chain[r.h]) :
    chain[r.h][i].id = r.blk /\ chain[r.h][i].rel = 0

RegionSet == {regions[i] : i \in 1..Len(regions)}

\* C1: after a successful fuse, a region allocated from any arena of the
\* fused group (before or after the fuse) is not released while at least one
\* arena of the group has not been dropped.
C1_FusedRegionsOutliveOwner ==
  \A r \in RegionSet : (Fused(r.a) /\ GroupAlive(r.a)) => RegionValid(r)

\* C1 witness: a's region is still valid after a was dropped, because an
\* arena fused with it is live.
C1_Witness ==
  \E r \in RegionSet :
    /\ astate[r.a] = "dropped"
    /\ Fused(r.a) /\ GroupAlive(r.a)
    /\ RegionValid(r)

\* C2: every block of a group, and every arena's memory, is released exactly
\* once, in the drop of the group's last live member: not at all while a
\* member is live (the group's live-count is the number of live members, at
\* least 1), once (never twice) when all are dropped (the live-count is 0).
C2_ReleasedExactlyOnceAtLastDrop ==
  \A v \in ArenaIds :
    astate[v] # "none" =>
      LET n == IF GroupAlive(v) THEN 0 ELSE 1
      IN /\ freed[raw[v]] = n
         /\ \A i \in 1..Len(chain[raw[v]]) :
              chain[raw[v]][i].owned => chain[raw[v]][i].rel = n
         /\ count[Root(parent, raw[v])] =
              Cardinality({w \in Group(v) : Live(w)})

\* C2 witness: a fused group whose members were all dropped, with a block
\* released once.
C2_Witness ==
  \E v \in ArenaIds :
    /\ Fused(v)
    /\ \A w \in Group(v) : astate[w] = "dropped"
    /\ Len(chain[raw[v]]) > 0
    /\ chain[raw[v]][1].rel = 1

Created(h) == parent[h] # NoArena

\* C3: a fuse with a FixedArena on either side fails (the wrapper panics)
\* and leaves every arena's root and every live-count as they were.
C3_FixedFuseFailsUnchanged ==
  [][(last'.op = "fuse" /\ (fixed[raw[last'.a]] \/ fixed[raw[last'.b]]))
       => /\ last'.res = "panic"
          /\ \A h \in ArenaIds :
               Created(h) => /\ Root(parent', h) = Root(parent, h)
                             /\ count'[h] = count[h]]_vars

\* C3 witness: a failed fuse of a growable arena already fused with another
\* one and a FixedArena given as second argument.
C3_Witness ==
  /\ last.op = "fuse" /\ last.res = "panic"
  /\ ~fixed[raw[last.a]] /\ fixed[raw[last.b]]
  /\ Fused(last.a)

\* C7: copy_in returns a reference whose pointee equals the value, and the
\* stored bytes stay what they were until the arena and all arenas fused
\* with it have been dropped.
C7_CopyInStable ==
  /\ (last.op = "copy_in" /\ last.res = "ok") => last.out = last.inp
  /\ \A r \in RegionSet :
       (r.op = "copy_in" /\ GroupAlive(r.a)) =>
         /\ RegionValid(r)
         /\ <<FromBytes(ReadMem(mem, r.ptr, r.size))>> = r.inp

\* C7 witness: a value copied into an arena since dropped, kept by a live
\* arena of its group, with a later region allocated after it.
C7_Witness ==
  \E i \in 1..Len(regions) :
    /\ i < Len(regions)
    /\ regions[i].op = "copy_in" /\ regions[i].inp = <<513>>
    /\ astate[regions[i].a] = "dropped"
    /\ GroupAlive(regions[i].a)

(***************************************************************************)
(* Properties of the concurrent specification (SpecConc).                  *)
(***************************************************************************)
FuseSteps == {"f_lock", "f_find1", "f_find2", "f_link", "f_unlock"}

Unreleased(h) ==
  /\ freed[h] = 0
  /\ \A i \in 1..Len(chain[h]) : chain[h][i].rel = 0

\* C4: while a fuse is in flight, the arenas it was given and the roots it
\* has found are not released, whatever another thread drops meanwhile; and
\* no block of a group that has a live member is released.
C4_NoReleaseUnderFuse ==
  /\ \A t \in Threads :
       pc[t] \in FuseSteps =>
         /\ Unreleased(tloc[t][1]) /\ Unreleased(tloc[t][2])
         /\ Unreleased(raw[targ[t][1]]) /\ Unreleased(raw[targ[t][2]])
  /\ \A v \in DOMAIN astate :
       GroupAlive(v) => Unreleased(raw[v])

\* C4 witness: one thread is linking the roots of its two arenas while the
\* other thread's drop of an arena of the same group waits for the lock,
\* after an earlier drop in that group.
C4_Witness ==
  \E t \in Threads : \E u \in Threads \ {t} :
    /\ pc[t] = "f_link" /\ tloc[t][1] # tloc[t][2]
    /\ pc[u] = "d_lock"
    /\ joined[targ[u][1]] = joined[targ[t][1]]
    /\ \E w \in Group(targ[t][1]) : astate[w] = "dropped"

\* A member whose live-count has not been given back yet.
NotYetFreed(w) ==
  \/ astate[w] = "live"
  \/ astate[w] = "dropping" /\ \E t \in Threads : targ[t][1] = w /\ pc[t] = "d_lock"

\* C5: whenever no call is inside the allocator, the arenas fused by the
\* calls that returned form exactly the groups of the forest (the outcome of
\* running those fuses one after the other), and each group's live-count is
\* the number of its members not yet dropped.
C5_ConcurrentFusesSerialise ==
  lock = 0 =>
    \A v \in DOMAIN astate :
      LET r == Root(parent, raw[v])
      IN /\ Members(parent, r) = {raw[w] : w \in Group(v)}
         /\ count[r] = Cardinality({w \in Group(v) : NotYetFreed(w)})

\* C5 witness: a fuse returned while the other thread's fuse, on a pair
\* with an arena of the same group, was in flight and about to merge one
\* more group.
C5_Witness ==
  /\ lock = 0
  /\ last.op = "fuse" /\ last.res = "ok" /\ last.inp = <<1>>
  /\ last.a # last.b
  /\ \E u \in Threads :
       /\ pc[u] = "f_lock"
       /\ joined[targ[u][1]] = joined[last.a]
       /\ joined[targ[u][2]] # joined[last.a]

(***************************************************************************)
(* Properties of the allocation specification (SpecAlloc).                 *)
(***************************************************************************)
Overlap(r, q) ==
  /\ r.size > 0 /\ q.size > 0
  /\ r.ptr < q.ptr + q.size
  /\ q.ptr < r.ptr + r.size

\* C6: the regions returned by the allocations made on a fresh arena are
\* pairwise non-overlapping, and each starts at a multiple of the alignment
\* requested for it (requests within the supported ceiling).
C6_DisjointAligned ==
  /\ \A i \in 1..Len(regions) : \A j \in 1..Len(regions) :
       i < j => ~Overlap(regions[i], regions[j])
  /\ \A r \in RegionSet :
       r.align <= UPB_MALLOC_ALIGN => r.ptr % r.align = 0

\* C6 witness: two non-empty regions of alignment 8 in the same block, and a
\* third in a block the chain grew by.
C6_Witness ==
  \E i \in 1..Len(regions) : \E j \in 1..Len(regions) :
    /\ i < j
    /\ regions[i].size > 0 /\ regions[j].size > 0
    /\ regions[i].align = UPB_MALLOC_ALIGN /\ regions[j].align = UPB_MALLOC_ALIGN
    /\ regions[i].blk # regions[j].blk
    /\ regions[j].ptr > regions[i].ptr

\* C8: copy_slice_in returns a slice of the input's length with the same
\* elements in the same order, and copy_str_in a string equal to its input.
C8_CopyRoundTrip ==
  (last.op \in {"copy_slice_in", "copy_str_in"} /\ last.res = "ok") =>
    /\ Len(last.out) = Len(last.inp)
    /\ \A i \in 1..Len(last.inp) : last.out[i] = last.inp[i]

\* C8 witness: a string of multi-byte characters copied and returned.
C8_Witness ==
  /\ last.op = "copy_str_in" /\ last.res = "ok"
  /\ last.inp = <<8364, 233>>
  /\ last.out = <<8364, 233>>

AllocOps == {"alloc", "checked_alloc", "copy_in", "copy_slice_in", "copy_str_in"}
CheckedOps == AllocOps \ {"alloc"}

\* The size of a request once the padding that aligns the bump offset is
\* added, and what is left of a block.
AlignedSize(blk, size) ==
  (AlignUp(blk.off, UPB_MALLOC_ALIGN) - blk.off) + size
Remaining(blk) == blk.cap - blk.off

InBlock(blk, ptr, size) ==
  ptr >= BlockBase(blk.id) /\ ptr + size <= BlockBase(blk.id) + blk.cap

\* C9: an allocation whose aligned size exceeds what remains of the head
\* block adds exactly one block, is served from it, and leaves the earlier
\* blocks, the earlier regions and the stored bytes as they were; an
\* allocation that fits in the head block adds no block.
C9_GrowthAddsOneBlock ==
  [][(last'.op \in AllocOps /\ last'.res = "ok") =>
       LET h == raw[last'.a]
           ch == chain[h]
           new == chain'[h]
       IN IF Len(ch) = 0 \/ AlignedSize(ch[1], last'.size) > Remaining(ch[1])
          THEN /\ Len(new) = Len(ch) + 1
               /\ Tail(new) = ch
               /\ InBlock(new[1], last'.ptr, last'.size)
               /\ SubSeq(regions', 1, Len(regions)) = regions
               /\ \A x \in DOMAIN mem : mem'[x] = mem[x]
          ELSE /\ Len(new) = Len(ch)
               /\ InBlock(ch[1], last'.ptr, last'.size)]_vars

\* C9 witness: a request that did not fit in a partly used head block was
\* served from a second block.
C9_Witness ==
  /\ last.op \in AllocOps /\ last.res = "ok"
  /\ Len(chain[TheArena]) = 2
  /\ chain[TheArena][2].off > 0
  /\ chain[TheArena][2].off < chain[TheArena][2].cap
  /\ InBlock(chain[TheArena][1], last.ptr, last.size)
  /\ Len(regions) = 2

Alias(v) == raw[v] # NoArena /\ raw[v] # v
NoAliasDropped == \A v \in ArenaIds : astate[v] = "dropped" => ~Alias(v)

LiveUnder(h) == {v \in ArenaIds : Live(v) /\ Root(parent, raw[v]) = h}
IsRoot(h) == parent[h] = h

\* C12: the live-count held at each group root is the number of arenas not
\* yet dropped whose find-root is that root; new() creates a singleton group
\* of count 1; a drop lowers the count of the dropped arena's current root
\* by exactly 1 and changes no other count.
C12_CountIsLiveMembers ==
  [][/\ (\A h \in ArenaIds : IsRoot(h) => count[h] = Cardinality(LiveUnder(h)))'
     /\ (last'.op = "new" /\ last'.res = "ok") =>
          /\ parent'[raw'[last'.a]] = raw'[last'.a]
          /\ count'[raw'[last'.a]] = 1
          /\ Members(parent', raw'[last'.a]) = {raw'[last'.a]}
     /\ last'.op = "drop" =>
          \A h \in ArenaIds :
            count'[h] = IF h = Root(parent, raw[last'.a])
                        THEN count[h] - 1 ELSE count[h]]_vars

\* C12 witness: one of three arenas of a group, not the root, was just
\* dropped and the root's count is 2.
C12_Witness ==
  \E h \in ArenaIds :
    /\ IsRoot(h) /\ count[h] = 2
    /\ Cardinality(Members(parent, h)) = 3
    /\ last.op = "drop" /\ raw[last.a] # h
    /\ Root(parent, raw[last.a]) = h

(***************************************************************************)
(* Properties of the group specification (SpecGroup).                      *)
(***************************************************************************)
Handles == {h \in DOMAIN parent : parent[h] # NoArena}
GrowableFuse == last'.op = "fuse" /\ ~fixed[raw[last'.a]] /\ ~fixed[raw[last'.b]]
FuseRoot1 == Root(parent, raw[last'.a])
FuseRoot2 == Root(parent, raw[last'.b])

\* A fuse of two arenas of different roots made one group of the two: one of
\* the two former roots is the root of every member of both, its count is
\* the sum of the two former counts, and the other groups are as they were.
MergedStep ==
  \E r \in {FuseRoot1, FuseRoot2} :
    /\ \A h \in Handles :
         Root(parent', h) =
           IF Root(parent, h) \in {FuseRoot1, FuseRoot2}
           THEN r ELSE Root(parent, h)
    /\ count'[r] = count[FuseRoot1] + count[FuseRoot2]
    /\ \A h \in Handles :
         (parent'[h] = h /\ h # r) => count'[h] = count[h]

Grew(h) == Len(chain'[h]) = Len(chain[h]) + 1
ServedStep == last'.op \in AllocOps /\ last'.res = "ok"

\* C14: an allocation larger than the size the growth policy would give the
\* next block is served from a new block of its own whose capacity is
\* exactly the request, and the policy does not count that block: the size
\* it gives the next block is what it was before the allocation.  (A block
\* the policy does size has the capacity the policy had chosen.)
C14_OversizedBlockOutsidePolicy ==
  [][ServedStep =>
       LET h == raw[last'.a]
           head == chain'[h][1]
       IN /\ last'.size > policy[h] =>
               /\ Grew(h)
               /\ head.cap = last'.size /\ ~head.pol
               /\ regions'[Len(regions')].blk = head.id
               /\ last'.ptr = BlockBase(head.id)
               /\ policy'[h] = policy[h]
          /\ (Grew(h) /\ last'.size <= policy[h]) =>
               head.cap = policy[h] /\ head.pol]_vars

\* C14 witness: between a first block and a block sized by the policy lies a
\* block made for one oversized request, and the policy's block has twice
\* the first block's size, as it would without the oversized request.
C14_Witness ==
  LET ch == chain[TheArena]
  IN /\ Len(ch) = 3
     /\ ch[3].pol /\ ch[3].cap = InitialBlockSize
     /\ ~ch[2].pol /\ ch[2].cap > GrowthCap
     /\ ch[1].pol /\ ch[1].cap = InitialBlockSize * GrowthFactor

\* The blocks of a chain that the policy sized, newest first, and the region
\* whose allocation made block b.
IsPolicyBlock(b) == b.pol
PolicyBlocks(ch) == SelectSeq(ch, IsPolicyBlock)
TriggerOf(b) ==
  regions[CHOOSE i \in 1..Len(regions) :
            /\ regions[i].blk = b.id
            /\ \A j \in 1..(i - 1) : regions[j].blk # b.id]
PolicyStep(size) ==
  IF size * GrowthFactor < GrowthCap THEN size * GrowthFactor ELSE GrowthCap

ReturnedRegion ==
  LET r == regions'[Len(regions')]
  IN /\ regions' = Append(regions, r)
     /\ r.ptr = last'.ptr /\ r.ptr # NoPtr
     /\ r.size = last'.size
     /\ r.a = last'.a /\ r.h = raw[last'.a]
     /\ \E i \in 1..Len(chain'[r.h]) :
          /\ chain'[r.h][i].id = r.blk /\ chain'[r.h][i].rel = 0
          /\ InBlock(chain'[r.h][i], r.ptr, r.size)
          /\ r.ptr + r.size <= BlockBase(r.blk) + chain'[r.h][i].off
     /\ \A i \in 1..Len(regions) : ~Overlap(regions[i], r)
     /\ r.ptr % UPB_MALLOC_ALIGN = 0
     /\ last'.align <= UPB_MALLOC_ALIGN => r.ptr % last'.align = 0

ChainsOf(ch, k) ==
  {h \in ArenaIds : \E i \in 1..Len(ch[h]) : ch[h][i].id = k}

\* C17: a fuse, whether it succeeds or panics, changes parent links, ranks
\* and live-counts only: every arena's block list, head block and bump
\* offset, the policy's next size, every stored byte and every region's
\* address stay as they were; and every allocation, before or after a fuse,
\* is served from the chain of the arena it was made on and touches no
\* other arena's chain.
C17_FuseLeavesChains ==
  [][/\ last'.op = "fuse" =>
          /\ UNCHANGED <<chain, policy, nblocks, mem, regions, freed, fixed,
                         astate, raw>>
          /\ last'.res = "panic" => UNCHANGED <<parent, count, rank>>
     /\ (last'.op \in AllocOps /\ last'.res = "ok") =>
          LET r == regions'[Len(regions')]
          IN /\ r.h = raw[last'.a]
             /\ ChainsOf(chain', r.blk) = {raw[last'.a]}
             /\ \A h \in ArenaIds \ {raw[last'.a]} : chain'[h] = chain[h]]_vars

\* C17 witness: an arena that had a region before it was fused has just been
\* served a second region, after the fuse, from a new block of its own
\* chain, while the root of its group is another arena whose chain is empty.
C17_Witness ==
  /\ last.op \in AllocOps /\ last.res = "ok"
  /\ Len(regions) = 2
  /\ regions[1].a = last.a /\ regions[2].a = last.a
  /\ regions[1].blk # regions[2].blk
  /\ Root(parent, raw[last.a]) # raw[last.a]
  /\ chain[Root(parent, raw[last.a])] = <<>>
  /\ Len(chain[raw[last.a]]) = 2

(***************************************************************************)
(* The forest under concurrent fuses and drops (SpecConc).                 *)
(***************************************************************************)
\* Follow at most n parent links from h.
RECURSIVE Climb(_, _, _)
Climb(p, h, n) ==
  IF n = 0 \/ p[h] = h THEN h ELSE Climb(p, p[h], n - 1)
TopOf(h) == Climb(parent, h, Cardinality(DOMAIN parent))

\* C18: in every reachable state, the states inside a fuse (between its
\* lock, its two find-roots with their path compression, its link and its
\* unlock) and inside a drop included, the parent links form a forest: from
\* every arena the links lead, without a cycle, to a root; the arenas that
\* returned fuses have joined all lead to one root; and an arena that is
\* not a root holds no live-count.
C18_ForestAlways ==
  /\ \A h \in Handles : parent[h] \in Handles
  /\ \A h \in Handles : parent[TopOf(h)] = TopOf(h)
  /\ \A v \in Handles, w \in Handles :
       joined[v] = joined[w] => TopOf(raw[v]) = TopOf(raw[w])
  /\ \A h \in Handles : parent[h] # h => count[h] = 0
  /\ \A h \in Handles : count[h] >= 0

\* C18 witness: one thread is inside a fuse, between its two find-roots,
\* another is waiting to free an arena it drops, and some arena is two
\* parent links away from its root.
C18_Witness ==
  \E t \in Threads, u \in Threads :
    /\ pc[t] = "f_find2" /\ pc[u] = "d_lock"
    /\ \E h \in Handles :
         parent[h] # h /\ parent[parent[h]] # parent[h]

(***************************************************************************)
(* Groups as an equivalence that only grows (SpecGroup).                   *)
(***************************************************************************)
\* The partition of the handles that the parent links p describe, and the
\* live-count of each of its groups under the counts c.
PartitionOf(p) == {Members(p, Root(p, h)) : h \in Handles}
GroupCounts(p, c) == {<<Members(p, Root(p, h)), c[Root(p, h)]>> : h \in Handles}

\* What a.fuse(&b) would make of the forest and the counts.
ParentAfter(a, b) == FuseParent(fuse_args(a, b)[1], fuse_args(a, b)[2])
CountAfter(a, b) == FuseCount(fuse_args(a, b)[1], fuse_args(a, b)[2])
SameRoot(p, v, w) == Root(p, raw[v]) = Root(p, raw[w])

\* C19: in every state and for every two arenas a and b, a.fuse(&b) and
\* b.fuse(&a) would lead to the same partition with the same live-count per
\* group, and in it a and b share a root; arenas joined through a chain of
\* returned fuses (fuse(a, b) and fuse(b, c), in either order) share a
\* root; and no step, fuse or drop, separates two arenas that shared one.
C19_GroupsOnlyGrow ==
  [][/\ \A a \in Handles, b \in Handles :
          (Live(a) /\ Live(b)) =>
            /\ PartitionOf(ParentAfter(a, b)) = PartitionOf(ParentAfter(b, a))
            /\ GroupCounts(ParentAfter(a, b), CountAfter(a, b)) =
                 GroupCounts(ParentAfter(b, a), CountAfter(b, a))
            /\ SameRoot(ParentAfter(a, b), a, b)
     /\ \A v \in Handles, w \in Handles :
          joined'[v] = joined'[w] => SameRoot(parent', v, w)
     /\ \A v \in Handles, w \in Handles :
          SameRoot(parent, v, w) => SameRoot(parent', v, w)]_vars

\* C19 witness: three arenas share a root, the arena that is the root has
\* just been dropped and the other two, still live, stay together, while a
\* fourth arena is on its own.
C19_Witness ==
  \E a \in Handles, b \in Handles, c \in Handles, d \in Handles :
    /\ Cardinality({a, b, c, d}) = 4
    /\ SameRoot(parent, a, c) /\ SameRoot(parent, a, b)
    /\ ~SameRoot(parent, a, d)
    /\ astate[b] = "dropped" /\ Live(a) /\ Live(c)
    /\ Root(parent, raw[a]) = raw[b]
    /\ last.op = "drop"

====
